---- MODULE Spec2Model ----
(***************************************************************************)
(* Model of the transcript processing core of youtube-transcript-extractor *)
(* (src/transcript_processor.py): the single-item processor                *)
(* process_transcript with its retry decorator, the batch orchestrator     *)
(* batch_process_transcripts, the response normaliser and validator, the   *)
(* text cleaning, the rate limiting wrapper, and the progress store of     *)
(* src/app.py.                                                             *)
(*                                                                         *)
(* Python values are modelled as follows.  A dict is a record whose DOMAIN *)
(* is the set of keys present.  A str that the code only copies or         *)
(* compares is a TLA+ string; a transcript text, which the code strips, is *)
(* a sequence of characters.  None is the string "None".  An exception is  *)
(* a record [type, msg]; a call either returns a value or raises one.      *)
(***************************************************************************)
EXTENDS Integers, Sequences, FiniteSets, TLC

VARIABLES
    \* ---- one call of process_transcript (SpecProcess) ----
    p_pc,          \* "ready" before the call, "done" after it, "unused" in Spec
    p_args,        \* the arguments of the call
    p_script,      \* what the LLM collaborator does on attempt 1, 2, 3 of this call
    p_out,         \* the outcome of the call: returned value or raised exception
    p_sent,        \* the user message of the requests made to the LLM, [] if none was made
    \* ---- one call of batch_process_transcripts (Spec) ----
    pc,            \* "validate", "sort", "process", "returned", "raised", "unused"
    transcripts,   \* the argument: a list of items
    style,         \* the argument style
    results,       \* the local list results
    i,             \* position of the validation loop (next item to look at)
    sorted_transcripts, \* the sorted list, as indices into transcripts
    k,             \* position of the processing loop
    raised,        \* the exception batch_process_transcripts re-raised, if any
    origin,        \* history: for each entry of results, the input it came from,
                   \* the loop that appended it and what process_transcript did
    \* ---- clean_and_transform_response, then validate_response (SpecNormalize) ----
    n_pc,          \* "ready", "normalized", "validated", "unused"
    n_raw,         \* the raw text the LLM returned
    n_input,       \* the transcript text that was sent
    n_out,         \* the outcome of clean_and_transform_response(n_raw)
    n_checked,     \* the outcome of validate_response(n_input, n_out.value)
    \* ---- clean_metadata_from_text applied twice (SpecClean) ----
    c_pc,          \* "ready", "once", "twice", "unused"
    c_text,        \* the text
    c_once,        \* clean_metadata_from_text(c_text)
    c_twice,       \* clean_metadata_from_text(c_once)
    \* ---- threads calling the rate-limited process_transcript (SpecRate) ----
    r_n,           \* number of threads
    r_now,         \* time.time()
    r_last_call,   \* last_call.get('process_transcript', 0)
    r_pc,          \* per thread: "idle", "waiting", "running", "finished"
    r_wake,        \* per thread: the time its time.sleep ends
    r_sleep,       \* per thread: the sleep_time its current call computed
    r_enter,       \* per thread: the time its current call entered the wrapper
    r_start,       \* per thread: the time the body of its current call started
    r_prev_end,    \* per thread: when its call entered / when its body started,
                   \* the time the latest call before it completed
    r_calls,       \* per thread: number of calls it has completed
    r_last_end,    \* the time the latest call completed, 0 before the first
    \* ---- the progress store (SpecProgress) ----
    g_progress,    \* app.download_progress
    g_set,         \* per video_id: the code update_progress was last called with
    g_read,        \* the response of the latest get_download_progress
    \* ---- the template registry (SpecTemplate) ----
    t_templates,   \* prompt_templates.TEMPLATES
    t_style,       \* the argument of the latest get_template call
    t_out,         \* what that call returned
    t_log,         \* the arguments of the calls made, in order
    \* ---- fetch_playlist_videos (SpecPlaylist) ----
    f_pc,              \* "start", "loop", "after", "returned", "raised"
    f_key,             \* whether YOUTUBE_API_KEY is set
    f_videos,          \* len(videos)
    f_items_fetched,   \* items_fetched
    f_next_page_token, \* next_page_token
    f_elapsed,         \* time.time() - start_time, in seconds
    f_tries,           \* the try of backoff.on_exception that is running
    f_raised,          \* the exception the call raised
    \* ---- validate_youtube_url (SpecUrl) ----
    u_pc,          \* "ready", "done"
    u_url,         \* the argument url
    u_out,         \* the bool returned
    \* ---- download_transcript_batch_route and a polling request (SpecRoute) ----
    d_pc,           \* where the route handler is
    d_request,      \* the request body: its list video_ids, or NotJson
    d_j,            \* position of the loop over video_ids
    d_transcripts,  \* the local list transcripts
    d_publish_date, \* the local publish_date of the current video
    d_write,        \* the assignment to download_progress the handler is about to make
    d_after,        \* where the handler goes on after that assignment
    d_r,            \* position of the loop over processed_results that is running
    d_output,       \* number of blocks appended to output
    d_response,     \* the HTTP status of the response, 0 before it is sent
    d_hist,         \* per video_id: the codes assigned during the request, in order
    d_lock,         \* who holds progress_lock: "free", "route", "poll"
    q_pc            \* where the get_download_progress handler is

p_vars == <<p_pc, p_args, p_script, p_out, p_sent>>
b_vars == <<pc, transcripts, style, results, i, sorted_transcripts, k, raised, origin>>
n_vars == <<n_pc, n_raw, n_input, n_out, n_checked>>
c_vars == <<c_pc, c_text, c_once, c_twice>>
r_vars == <<r_n, r_now, r_last_call, r_pc, r_wake, r_sleep, r_enter, r_start, r_prev_end,
            r_calls, r_last_end>>
g_vars == <<g_progress, g_set, g_read>>
t_vars == <<t_templates, t_style, t_out, t_log>>
\* the parts added after the progress store
f_vars == <<f_pc, f_key, f_videos, f_items_fetched, f_next_page_token, f_elapsed, f_tries, f_raised>>
u_vars == <<u_pc, u_url, u_out>>
d_vars == <<d_pc, d_request, d_j, d_transcripts, d_publish_date, d_write, d_after, d_r,
           d_output, d_response, d_hist, d_lock, q_pc>>
o_vars == <<t_vars, f_vars, u_vars, d_vars>>
vars == <<p_vars, b_vars, n_vars, c_vars, r_vars, g_vars, o_vars>>

----------------------------------------------------------------------------
(* Bounds of the model *)
MaxTextLen == 1     \* longest transcript text
MaxBatch == 2       \* longest list passed to batch_process_transcripts
MaxDate == 2        \* number of distinct days a publishedAt can name
MaxItems == 1       \* longest tags or key_points list in a text fragment
MaxCleanLen == 3    \* longest text given to clean_metadata_from_text on its own
MaxElapsed == 12    \* seconds the clock runs for
MaxCalls == 2       \* calls of process_transcript one thread makes

(* Program constants *)
MAX_RETRIES == 3
RATE_LIMIT_DELAY == 10

----------------------------------------------------------------------------
(* Python values *)
None == "None"
EmptyStr == ""
Chars == {" ", "a"}
Texts == UNION {[1..n -> Chars] : n \in 0..MaxTextLen}

NoExc == [type |-> "none", msg |-> ""]
Exc(t, m) == [type |-> t, msg |-> m]
Return(v, n) == [raised |-> NoExc, value |-> v, llm_calls |-> n]
Raise(e, n) == [raised |-> e, value |-> [raised |-> e.type], llm_calls |-> n]

\* dict.get(key, default)
Get(d, key, default) == IF key \in DOMAIN d THEN d[key] ELSE default

\* A text is a sequence of tokens.  Besides the characters, a token is a
\* piece of text one of the regular expressions of the code matches as a unit.
NL == "\n"
Whitespace == {" ", NL}
Timestamp == "[00:01]"            \* \[[\d:]+\]
SoundEffect == "[Music]"          \* \[(?:Music|Applause)\]
Transcriber == "Transcriber:"
Reviewer == "Reviewer:"
TitleKey == "Title:"              \* (?:Title|Video Title):
H1 == "1. Summary:"
H2 == "2. Tags:"
H3 == "3. Key Points:"
H4 == "4. Formatted Transcript:"

\* str.strip() on a text: drop leading and trailing whitespace
RECURSIVE lstrip(_)
lstrip(s) == IF s # <<>> /\ Head(s) \in Whitespace THEN lstrip(Tail(s)) ELSE s
RECURSIVE rstrip(_)
rstrip(s) == IF s # <<>> /\ s[Len(s)] \in Whitespace THEN rstrip(SubSeq(s, 1, Len(s) - 1)) ELSE s
strip(s) == rstrip(lstrip(s))

\* the part of s after its first n tokens
Drop(s, n) == SubSeq(s, n + 1, Len(s))
\* length of the run of whitespace s starts with
RECURSIVE WsRunLen(_)
WsRunLen(s) == IF s # <<>> /\ Head(s) \in Whitespace THEN 1 + WsRunLen(Tail(s)) ELSE 0
\* length of the run of newlines s starts with
RECURSIVE NLRunLen(_)
NLRunLen(s) == IF s # <<>> /\ Head(s) = NL THEN 1 + NLRunLen(Tail(s)) ELSE 0
\* position of the last newline among the first n tokens of s, 0 if none
LastNL(s, n) ==
    IF \E j \in 1..n : s[j] = NL
    THEN CHOOSE j \in 1..n : s[j] = NL /\ \A j2 \in (j + 1)..n : s[j2] # NL
    ELSE 0
\* position of the first token of s equal to tok at or after position from, 0 if none
FirstAt(s, tok, from) ==
    IF \E j \in from..Len(s) : s[j] = tok
    THEN CHOOSE j \in from..Len(s) : s[j] = tok /\ \A j2 \in from..(j - 1) : s[j2] # tok
    ELSE 0

----------------------------------------------------------------------------
(* clean_transcript_content, identify_sections, clean_metadata_from_text *)

\* re.sub(r'Transcriber:.*?\n', '', s): the marker and the rest of its line
RECURSIVE remove_credit(_, _)
remove_credit(s, marker) ==
    IF s = <<>> THEN <<>>
    ELSE IF Head(s) = marker /\ FirstAt(s, NL, 2) # 0
         THEN remove_credit(Drop(s, FirstAt(s, NL, 2)), marker)
         ELSE <<Head(s)>> \o remove_credit(Tail(s), marker)

\* re.sub(r'\[(?:Music|Applause)\](?:\s*\n)?', '', s): the marker and, when
\* the whitespace after it holds a newline, that whitespace up to its last newline
RECURSIVE remove_sound(_)
remove_sound(s) ==
    IF s = <<>> THEN <<>>
    ELSE IF Head(s) = SoundEffect
         THEN LET t == Tail(s)
              IN remove_sound(Drop(t, LastNL(t, WsRunLen(t))))
         ELSE <<Head(s)>> \o remove_sound(Tail(s))

\* re.sub(r'^\s*\[[\d:]+\]\s*', '', s, flags=re.MULTILINE): at the start of a
\* line, whitespace, a timestamp and the whitespace after it.  at_start says
\* whether the token before s is a newline (or s starts the text).
RECURSIVE remove_timestamps(_, _)
remove_timestamps(s, at_start) ==
    IF s = <<>> THEN <<>>
    ELSE LET n == WsRunLen(s)
         IN IF at_start /\ n < Len(s) /\ s[n + 1] = Timestamp
            THEN LET t == Drop(s, n + 1)
                     m == WsRunLen(t)
                 IN remove_timestamps(Drop(t, m), m > 0 /\ t[m] = NL)
            ELSE <<Head(s)>> \o remove_timestamps(Tail(s), Head(s) = NL)

\* re.sub(r'\n{3,}', '\n\n', s)
RECURSIVE collapse_newlines(_)
collapse_newlines(s) ==
    IF s = <<>> THEN <<>>
    ELSE LET n == NLRunLen(s)
         IN IF n >= 3 THEN <<NL, NL>> \o collapse_newlines(Drop(s, n))
            ELSE IF n > 0 THEN SubSeq(s, 1, n) \o collapse_newlines(Drop(s, n))
            ELSE <<Head(s)>> \o collapse_newlines(Tail(s))

\* re.sub(r'^\s+', '', s, flags=re.MULTILINE)
RECURSIVE strip_line_starts(_, _)
strip_line_starts(s, at_start) ==
    IF s = <<>> THEN <<>>
    ELSE LET n == WsRunLen(s)
         IN IF at_start /\ n > 0
            THEN strip_line_starts(Drop(s, n), s[n] = NL)
            ELSE <<Head(s)>> \o strip_line_starts(Tail(s), Head(s) = NL)

\* re.sub(r'\s+$', '', s, flags=re.MULTILINE): whitespace that ends where the
\* text ends or right before a newline
RECURSIVE strip_line_ends(_)
strip_line_ends(s) ==
    IF s = <<>> THEN <<>>
    ELSE LET n == WsRunLen(s)
         IN IF n > 0 /\ n = Len(s) THEN <<>>
            ELSE IF n > 0 /\ LastNL(s, n) >= 2
            THEN strip_line_ends(Drop(s, LastNL(s, n) - 1))
            ELSE <<Head(s)>> \o strip_line_ends(Tail(s))

clean_transcript_content(text) ==
    IF text = <<>> THEN text
    ELSE LET c1 == remove_credit(text, Transcriber)
             c2 == remove_credit(c1, Reviewer)
             c3 == remove_sound(c2)
             c4 == remove_timestamps(c3, TRUE)
             c5 == collapse_newlines(c4)
             c6 == strip_line_starts(c5, TRUE)
             c7 == strip_line_ends(c6)
         IN strip(c7)

\* re.search(head (.+?) (?=stop)): the text between the first head that has
\* a stop at least one token further on, and the first such stop; stripped
section_between(s, head, stop) ==
    LET starts == {j \in 1..Len(s) : s[j] = head /\ FirstAt(s, stop, j + 2) # 0}
    IN IF starts = {} THEN <<>>
       ELSE LET b == CHOOSE j \in starts : \A j2 \in starts : j <= j2
            IN strip(SubSeq(s, b + 1, FirstAt(s, stop, b + 2) - 1))

\* re.search(r'4\.\s*Formatted\s*[Tt]ranscript:(.+?)$', re.DOTALL): what
\* follows the first header, when something follows it; stripped
section_to_end(s, head) ==
    LET b == FirstAt(s, head, 1)
    IN IF b = 0 \/ b = Len(s) THEN <<>> ELSE strip(Drop(s, b))

identify_sections(text) ==
    [summary |-> section_between(text, H1, H2),
     tags |-> section_between(text, H2, H3),
     key_points |-> section_between(text, H3, H4),
     formatted_text |-> section_to_end(text, H4)]

\* lines 288-308: clean the formatted text section, join the sections again
reconstruct(sections) ==
    strip(<<H1, NL>> \o sections.summary
          \o <<NL, NL, H2, NL>> \o sections.tags
          \o <<NL, NL, H3, NL>> \o sections.key_points
          \o <<NL, NL, H4, NL>>
          \o (IF sections.formatted_text # <<>>
              THEN clean_transcript_content(sections.formatted_text)
              ELSE sections.formatted_text))

clean_metadata_from_text(text) ==
    IF text = <<>> THEN text ELSE reconstruct(identify_sections(text))

----------------------------------------------------------------------------
(* The text an LLM call returns.  A raw text is described by its layout:   *)
(* shape "object" is one JSON object holding the members `fields`, written *)
(* with double or single quotes, bare or inside a ```json fence; shape     *)
(* "fragment" is text that is no JSON document under any quoting, in which *)
(* the members `fields` occur as  "name": "value"  or  "name": [items].    *)
Keys == {"formatted_text", "summary", "tags", "key_points"}
Restrict(f, D) == [key \in D |-> f[key]]

\* texts an LLM gives as formatted_text: plain, or under a "Title: a" line
ResponseTexts == Texts \cup {<<TitleKey, "a", NL>> \o t : t \in Texts}
\* list items as the regex of extract_field captures them
ListItems == {"tag", " tag", " ", ","}
ItemLists == UNION {[1..n -> ListItems] : n \in 0..MaxItems}

ObjectFields ==
    {Restrict(f, D) : f \in [formatted_text : ResponseTexts, summary : {EmptyStr, "summary"},
                             tags : {<<>>, <<"tag">>}, key_points : {<<>>, <<"point">>}],
                      D \in SUBSET Keys}
\* a fragment holds a text member only with a value of one character or more
\* (formatted_text excepted, whose pattern also captures an empty value)
FragmentFields ==
    {Restrict(f, D) : f \in [formatted_text : ResponseTexts, summary : {"summary"},
                             tags : ItemLists, key_points : ItemLists],
                      D \in SUBSET Keys}
RawTexts ==
    {[shape |-> "object", fenced |-> fc, quote |-> q, fields |-> f] :
        fc \in BOOLEAN, q \in {"double", "single"}, f \in ObjectFields}
    \cup {[shape |-> "fragment", fenced |-> FALSE, quote |-> "double", fields |-> f] :
        f \in FragmentFields}

\* the raw text is a JSON document as it stands
IsValidJSON(raw) == raw.shape = "object" /\ ~raw.fenced /\ raw.quote = "double"

\* a variant of the decoder that rejects every text
json_loads_rejecting(raw) == Raise(Exc("JSONDecodeError", "Expecting value"), 0)

\* json.loads(text)
json_loads(raw) ==
    IF raw.shape = "object" /\ ~raw.fenced /\ raw.quote = "double"
    THEN Return(raw.fields, 0)
    ELSE Raise(Exc("JSONDecodeError", "Expecting value"), 0)

\* lines 131-135: strip, remove the ```json fence, replace ' by "
cleaned_text(raw) == [raw EXCEPT !.fenced = FALSE, !.quote = "double"]

\* str.strip() on a list item
strip_item(t) == IF t = " " THEN EmptyStr ELSE IF t = " tag" THEN "tag" ELSE t

\* extract_field(text, field_name, is_list): what the patterns capture
extract_field(raw, field_name, is_list) ==
    IF is_list
    THEN Get(raw.fields, field_name, <<>>)
    ELSE IF field_name = "formatted_text"
    THEN IF field_name \in DOMAIN raw.fields
         THEN clean_metadata_from_text(raw.fields[field_name])
         ELSE <<>>
    ELSE Get(raw.fields, field_name, EmptyStr)

\* lines 154-157: strip the items, drop the empty ones and the commas
clean_items(items) ==
    LET kept == SelectSeq(items, LAMBDA t : strip_item(t) # EmptyStr /\ strip_item(t) # ",")
    IN [j \in 1..Len(kept) |-> strip_item(kept[j])]

\* a variant of lines 148-159 that returns whatever was extracted
check_extracted_lenient(extracted) ==
    Return([extracted EXCEPT !.tags = clean_items(@), !.key_points = clean_items(@)], 0)

\* lines 148-159: fail if nothing was extracted, else clean the lists
check_extracted(extracted) ==
    IF /\ extracted.formatted_text = <<>> /\ extracted.summary = EmptyStr
       /\ extracted.tags = <<>> /\ extracted.key_points = <<>>
    THEN Raise(Exc("ValueError", "Failed to parse response and extract content"), 0)
    ELSE Return([extracted EXCEPT !.tags = clean_items(@), !.key_points = clean_items(@)], 0)

\* lines 139-159: regex extraction
tier3(raw) ==
    check_extracted([formatted_text |-> extract_field(raw, "formatted_text", FALSE),
                     summary |-> extract_field(raw, "summary", FALSE),
                     tags |-> extract_field(raw, "tags", TRUE),
                     key_points |-> extract_field(raw, "key_points", TRUE)])

\* lines 129-159: the handler of the first JSONDecodeError, given what
\* json.loads made of the cleaned text
tier2(raw, decoded) ==
    IF decoded.raised = NoExc THEN ("tiers" :> <<1, 2>>) @@ decoded
    ELSE ("tiers" :> <<1, 2, 3>>) @@ tier3(raw)

\* lines 124-127, given what json.loads made of the text
tier1(raw, decoded) ==
    IF decoded.raised = NoExc THEN ("tiers" :> <<1>>) @@ decoded
    ELSE tier2(raw, json_loads(cleaned_text(raw)))

\* The outcome of the call, with the tiers it went through in `tiers`.
clean_and_transform_response(raw) == tier1(raw, json_loads(raw))

\* lines 87-97: some line of the text is a metadata line, "Title: ..."
has_metadata_line(text) ==
    \E j \in 1..Len(text) :
        /\ j = 1 \/ text[j - 1] = NL
        /\ text[j] = TitleKey
        /\ j < Len(text) /\ text[j + 1] # NL
        /\ FirstAt(text, NL, j + 2) # 0

\* lines 95-100: response['formatted_text'] is replaced when it holds a metadata line
clean_in_place(response) ==
    IF has_metadata_line(response.formatted_text)
    THEN [response EXCEPT !.formatted_text = clean_metadata_from_text(@)]
    ELSE response

\* lines 102-109, on the dict as the clean-up left it
check_required_fields(response) ==
    IF \/ Get(response, "summary", EmptyStr) = EmptyStr
       \/ Get(response, "tags", <<>>) = <<>>
       \/ Get(response, "key_points", <<>>) = <<>>
    THEN ("response" :> response) @@ Raise(Exc("ValueError", "Response missing required fields"), 0)
    ELSE ("response" :> response) @@ Return(TRUE, 0)

\* a variant of the validator without the comparison with the input
validate_response_no_compare(input_text, response) ==
    IF Get(response, "formatted_text", <<>>) = <<>>
    THEN ("response" :> response) @@ Raise(Exc("ValueError", "Response missing formatted text"), 0)
    ELSE check_required_fields(clean_in_place(response))

\* validate_response returns True or raises; `response` is the dict it was
\* given as the call leaves it (lines 96-100 assign to it in place).
validate_response(input_text, response) ==
    IF Get(response, "formatted_text", <<>>) = <<>>
    THEN ("response" :> response) @@ Raise(Exc("ValueError", "Response missing formatted text"), 0)
    ELSE IF response.formatted_text = input_text
    THEN ("response" :> response) @@ Raise(Exc("ValueError", "Formatted text unchanged from input"), 0)
    ELSE check_required_fields(clean_in_place(response))

----------------------------------------------------------------------------
(* The LLM collaborator: client.chat.completions.create.  On one attempt   *)
(* it raises a KeyError, raises a transient server error, or returns text  *)
(* of one of four classes: text no tier of the normaliser recovers         *)
(* anything from, a JSON object whose formatted_text repeats the input,    *)
(* one whose formatted_text is new, and one whose formatted_text is the    *)
(* input under a "Title: a" line; the last three with all required fields. *)
LLMRaises == {"KeyError", "ServerError"}
LLMReturns == {"Malformed", "Unchanged", "Valid", "Titled"}
Outcomes == LLMRaises \cup LLMReturns
Scripts == [1..MAX_RETRIES -> Outcomes]

\* the members of the JSON object returned
DecodedResponse(outcome, transcript_text) ==
    [formatted_text |-> IF outcome = "Unchanged" THEN transcript_text
                        ELSE IF outcome = "Titled" THEN <<TitleKey, "a", NL>> \o transcript_text
                        ELSE <<"A">> \o transcript_text,
     summary |-> "summary", tags |-> <<"tag">>, key_points |-> <<"point">>]

\* response.choices[0].message.content
LLMText(outcome, transcript_text) ==
    IF outcome = "Malformed"
    THEN [shape |-> "fragment", fenced |-> FALSE, quote |-> "double", fields |-> <<>>]
    ELSE [shape |-> "object", fenced |-> FALSE, quote |-> "double",
          fields |-> DecodedResponse(outcome, transcript_text)]

----------------------------------------------------------------------------
(* prompt_templates.get_template: TEMPLATES.get(style, TEMPLATES["default"]) *)
TemplateNames == {"default", "academic", "technical", "business"}
\* a lookup without the fallback to the default template
get_template_no_default(s) == IF s \in TemplateNames THEN s ELSE "business"

get_template(s) == IF s \in TemplateNames THEN s ELSE "default"

\* truth value of a str-or-None argument
Truthy(x) == x # None /\ x # EmptyStr

----------------------------------------------------------------------------
(* process_transcript: the body of the function, then its decorators *)

\* lines 359-370: the metadata is added and the dict returned, unless
\* validate_response raised
add_metadata(checked, video_title, video_id, publish_date, style_arg) ==
    IF checked.raised # NoExc
    THEN Raise(checked.raised, 1)
    ELSE Return((IF Truthy(style_arg) THEN "style" :> style_arg ELSE <<>>)
                @@ (IF Truthy(publish_date) THEN "publishedAt" :> publish_date ELSE <<>>)
                @@ (IF Truthy(video_id) THEN "video_id" :> video_id ELSE <<>>)
                @@ (IF Truthy(video_title) THEN "title" :> video_title ELSE <<>>)
                @@ checked.response, 1)

\* lines 354-370, given what clean_and_transform_response made of the text
validate_and_return(processed, transcript_text, video_title, video_id, publish_date, style_arg) ==
    IF processed.raised # NoExc
    THEN Raise(processed.raised, 1)
    ELSE add_metadata(validate_response(transcript_text, processed.value),
                      video_title, video_id, publish_date, style_arg)

\* the try block: one run of the body on one LLM outcome
process_transcript_try(transcript_text, video_title, video_id, publish_date, style_arg, outcome) ==
    IF transcript_text = <<>> \/ strip(transcript_text) = <<>>
    THEN Raise(Exc("ValueError", "Invalid transcript text provided"), 0)
    \* template = get_template(style): some template, whatever the style
    ELSE IF get_template(style_arg) \in TemplateNames /\ outcome \in LLMRaises
    THEN Raise(Exc(outcome, outcome), 1)
    ELSE validate_and_return(clean_and_transform_response(LLMText(outcome, transcript_text)),
                             transcript_text, video_title, video_id, publish_date, style_arg)

\* a variant of the handler that lets the exception out of the function
process_transcript_except_reraise(e, video_id, n) == Raise(e, n)

\* the except block: every Exception becomes a failure record
process_transcript_except(e, video_id, n) ==
    Return([video_id |-> video_id, error |-> e.msg, success |-> FALSE,
            error_type |-> "processing_error"], n)

\* try ... except Exception, given the outcome of the try block
try_except(t, video_id) ==
    IF t.raised # NoExc
    THEN process_transcript_except(t.raised, video_id, t.llm_calls)
    ELSE t

process_transcript_body(a, outcome) ==
    try_except(process_transcript_try(a.transcript_text, a.video_title, a.video_id,
                                      a.publish_date, a.style, outcome), a.video_id)

\* giveup=lambda e: isinstance(e, KeyError)
giveup(e) == e.type = "KeyError"

\* backoff.on_exception(backoff.expo, (Exception,), max_tries=MAX_RETRIES, giveup=...):
\* call the body; on an exception give up (re-raise) if giveup(e) or this was
\* try number max_tries, else wait and call again.  calls counts the LLM
\* invocations made so far.
RECURSIVE backoff_on_exception(_, _, _, _)
\* what the retry loop does with the outcome r of try number `tries`
backoff_retry(r, a, script, tries, calls) ==
    IF r.raised = NoExc \/ giveup(r.raised) \/ tries = MAX_RETRIES
    THEN [r EXCEPT !.llm_calls = calls + @]
    ELSE backoff_on_exception(a, script, tries + 1, calls + r.llm_calls)

backoff_on_exception(a, script, tries, calls) ==
    backoff_retry(process_transcript_body(a, script[tries]), a, script, tries, calls)

\* the decorated function.  rate_limit_decorator's wrapper only delays the
\* call and passes the result, or the exception, through.
process_transcript(a, script) == backoff_on_exception(a, script, 1, 0)

\* lines 325-334: the context string built from the metadata given
context_lines(video_title, publish_date, video_id) ==
    (IF Truthy(video_title) THEN <<"Video Title: ", video_title, NL>> ELSE <<>>)
    \o (IF Truthy(publish_date) THEN <<"Published: ", publish_date, NL>> ELSE <<>>)
    \o (IF Truthy(video_id) THEN <<"Video ID: ", video_id, NL>> ELSE <<>>)
context(a) ==
    IF context_lines(a.video_title, a.publish_date, a.video_id) # <<>>
    THEN context_lines(a.video_title, a.publish_date, a.video_id) \o <<NL, "Transcript:", NL>>
    ELSE <<>>
\* line 337
full_text(a) == context(a) \o a.transcript_text
\* line 349: the content of the message with role "user"
user_content(a) == a.transcript_text

Args(text, title, vid, date, st) ==
    [transcript_text |-> text, video_title |-> title, video_id |-> vid,
     publish_date |-> date, style |-> st]

----------------------------------------------------------------------------
(* publishedAt strings and datetime values *)
NaiveDate(d) == "2024-01-0" \o ToString(d)
AwareDate(d) == "2024-01-0" \o ToString(d) \o "T00:00:00Z"
Unparsable == "yesterday"
Days == 1..MaxDate
PublishedAts == {Unparsable} \cup {NaiveDate(d) : d \in Days} \cup {AwareDate(d) : d \in Days}

----------------------------------------------------------------------------
(* The variables of the parts a specification leaves out stay as they are. *)
ProcessUnused ==
    /\ p_pc = "unused" /\ p_args = Args(<<>>, None, None, None, "default")
    /\ p_script = [j \in 1..MAX_RETRIES |-> "Valid"] /\ p_out = Return(None, 0)
    /\ p_sent = <<>>
BatchUnused ==
    /\ pc = "unused" /\ transcripts = <<>> /\ style = "default" /\ results = <<>>
    /\ i = 0 /\ sorted_transcripts = <<>> /\ k = 0 /\ raised = NoExc /\ origin = <<>>
NormalizeUnused ==
    /\ n_pc = "unused" /\ n_raw = None /\ n_input = <<>> /\ n_out = None /\ n_checked = None
CleanUnused ==
    /\ c_pc = "unused" /\ c_text = <<>> /\ c_once = <<>> /\ c_twice = <<>>
RateUnused ==
    /\ r_n = 0 /\ r_now = 0 /\ r_last_call = 0 /\ r_pc = <<>> /\ r_wake = <<>>
    /\ r_sleep = <<>> /\ r_enter = <<>> /\ r_start = <<>> /\ r_prev_end = <<>>
    /\ r_calls = <<>> /\ r_last_end = 0
ProgressUnused ==
    /\ g_progress = <<>> /\ g_set = <<>> /\ g_read = [status |-> "none"]
TemplateUnused ==
    /\ t_templates = <<>> /\ t_style = None /\ t_out = None /\ t_log = <<>>
PlaylistUnused ==
    /\ f_pc = "unused" /\ f_key = TRUE /\ f_videos = 0 /\ f_items_fetched = 0
    /\ f_next_page_token = None /\ f_elapsed = 0 /\ f_tries = 0 /\ f_raised = NoExc
UrlUnused ==
    /\ u_pc = "unused" /\ u_url = [host |-> "none"] /\ u_out = FALSE
RouteUnused ==
    /\ d_pc = "unused" /\ d_request = <<>> /\ d_j = 0 /\ d_transcripts = <<>>
    /\ d_publish_date = None /\ d_write = [video_id |-> None, code |-> 0] /\ d_after = "unused"
    /\ d_r = 0 /\ d_output = 0 /\ d_response = 0 /\ d_hist = <<>> /\ d_lock = "free"
    /\ q_pc = "unused"
LaterUnused == TemplateUnused /\ PlaylistUnused /\ UrlUnused /\ RouteUnused

----------------------------------------------------------------------------
(* SpecProcess: one call of process_transcript on any arguments and any    *)
(* behaviour of the LLM collaborator.                                      *)
Styles == {"default", "academic"}
\* a transcript text that is itself a document clean_metadata_from_text produced
CleanedDocument == clean_metadata_from_text(<<"a">>)

InitProcess ==
    /\ p_pc = "ready"
    /\ p_args \in {Args(text, title, vid, date, st) :
                     text \in Texts \cup {CleanedDocument}, title \in {None, "T"}, vid \in {None, "1"},
                     date \in {None, AwareDate(1)}, st \in Styles}
    /\ p_script \in Scripts
    /\ p_out = Return(None, 0)
    /\ p_sent = <<>>
    /\ BatchUnused /\ NormalizeUnused /\ CleanUnused /\ RateUnused /\ ProgressUnused /\ LaterUnused

CallProcessTranscript ==
    /\ p_pc = "ready"
    /\ p_out' = process_transcript(p_args, p_script)
    /\ p_sent' = IF p_out'.llm_calls > 0 THEN user_content(p_args) ELSE <<>>
    /\ p_pc' = "done"
    /\ UNCHANGED <<p_args, p_script, b_vars, n_vars, c_vars, r_vars, g_vars, o_vars>>

NextProcess == CallProcessTranscript

SpecProcess == InitProcess /\ [][NextProcess]_vars

----------------------------------------------------------------------------
(* batch_process_transcripts *)

\* An element of the list that is not a dict (a str, a number, None, a list:
\* what a JSON body can hold besides an object).  It has no attribute get.
NotADict == [nondict |-> "str"]
isinstance_dict(t) == "nondict" \notin DOMAIN t

\* The dict items that can stand at position j of the list: each of the keys
\* video_id, transcript and publishedAt is present or absent.  The video_id
\* of the item at position j, when present, is the string of j.
DictItems(j) ==
    {V @@ T @@ P :
        V \in {<<>>, "video_id" :> ToString(j)},
        T \in {<<>>} \cup {"transcript" :> text : text \in Texts},
        P \in {<<>>} \cup {"publishedAt" :> d : d \in PublishedAts}}
Items(j) == {NotADict} \cup DictItems(j)

\* the lists of n items
RECURSIVE Batches(_)
Batches(n) ==
    IF n = 0 THEN {<<>>}
    ELSE {Append(b, t) : b \in Batches(n - 1), t \in Items(n)}

\* datetime values: naive or timezone-aware, t is the day (0 for datetime.min)
datetime_min == [aware |-> FALSE, t |-> 0]
ParseError == [aware |-> FALSE, t |-> -1]

\* str.replace('Z', '+00:00') on a publishedAt string
replace_Z(date_str) ==
    IF \E d \in Days : date_str = AwareDate(d)
    THEN LET d == CHOOSE d \in Days : date_str = AwareDate(d)
         IN "2024-01-0" \o ToString(d) \o "T00:00:00+00:00"
    ELSE date_str

\* datetime.fromisoformat; ParseError stands for the ValueError it raises
fromisoformat(date_str) ==
    IF \E d \in Days : date_str = NaiveDate(d)
    THEN [aware |-> FALSE, t |-> CHOOSE d \in Days : date_str = NaiveDate(d)]
    ELSE IF \E d \in Days : date_str = "2024-01-0" \o ToString(d) \o "T00:00:00+00:00"
    THEN [aware |-> TRUE,
          t |-> CHOOSE d \in Days : date_str = "2024-01-0" \o ToString(d) \o "T00:00:00+00:00"]
    ELSE ParseError

get_date(transcript) ==
    IF ~Truthy(Get(transcript, "publishedAt", None))
    THEN datetime_min
    ELSE LET parsed == fromisoformat(replace_Z(transcript.publishedAt))
         IN IF parsed = ParseError THEN datetime_min ELSE parsed

\* sorted(transcripts, key=get_date, reverse=True), as a list of indices.
\* Ordering a naive against an aware datetime raises TypeError, and a sort
\* compares across any two groups of its elements, so a list that holds both
\* kinds of key makes sorted raise.  Otherwise the order is descending and
\* stable: an element goes after the elements whose key is not smaller.
RECURSIVE insert_desc(_, _, _)
insert_desc(s, x, key) ==
    IF s = <<>> THEN <<x>>
    ELSE IF key[Head(s)].t >= key[x].t
         THEN <<Head(s)>> \o insert_desc(Tail(s), x, key)
         ELSE <<x>> \o s

RECURSIVE sort_desc(_, _)
sort_desc(n, key) ==
    IF n = 0 THEN <<>> ELSE insert_desc(sort_desc(n - 1, key), n, key)

sorted_by_date(ts) ==
    LET key == [j \in 1..Len(ts) |-> get_date(ts[j])]
    IN IF \E a, b \in 1..Len(ts) : key[a].aware # key[b].aware
       THEN Raise(Exc("TypeError", "can't compare offset-naive and offset-aware datetimes"), 0)
       ELSE Return(sort_desc(Len(ts), key), 0)

\* the entry appended after process_transcript returned
SuccessEntry(t, processed, style_arg) ==
    [video_id |-> t.video_id,
     title |-> Get(t, "title", "Unknown Title"),
     channel_name |-> Get(t, "channel_name", "Unknown Channel"),
     publishedAt |-> Get(t, "publishedAt", None),
     formatted_text |-> Get(processed, "formatted_text", <<>>),
     summary |-> Get(processed, "summary", EmptyStr),
     tags |-> Get(processed, "tags", <<>>),
     key_points |-> Get(processed, "key_points", <<>>),
     full_transcript |-> t.transcript,
     style |-> style_arg,
     research_implications |-> Get(processed, "research_implications", <<>>),
     code_snippets |-> Get(processed, "code_snippets", <<>>),
     technical_concepts |-> Get(processed, "technical_concepts", <<>>),
     market_insights |-> Get(processed, "market_insights", <<>>),
     strategic_implications |-> Get(processed, "strategic_implications", <<>>),
     success |-> TRUE]

\* the entry appended by the validation loop, and by the except block of the
\* processing loop
FailureEntry(t, msg, kind) ==
    [video_id |-> Get(t, "video_id", "unknown"), error |-> msg, success |-> FALSE,
     error_type |-> kind]

Origin(j, loop, proc) == [src |-> j, pass |-> loop, processed |-> proc]

InitBatch ==
    /\ pc = "validate"
    /\ \E n \in 0..MaxBatch : transcripts \in Batches(n)
    /\ style = "default"
    /\ results = <<>>
    /\ i = 1
    /\ sorted_transcripts = <<>>
    /\ k = 1
    /\ raised = NoExc
    /\ origin = <<>>
    /\ ProcessUnused /\ NormalizeUnused /\ CleanUnused /\ RateUnused /\ ProgressUnused /\ LaterUnused

\* one iteration of the validation loop
ValidateItem ==
    /\ pc = "validate" /\ i <= Len(transcripts)
    /\ LET t == transcripts[i]
       IN IF ~isinstance_dict(t)
          THEN \* transcript.get(...) on a non-dict: AttributeError, re-raised by the outer handler
               /\ pc' = "raised"
               /\ raised' = Exc("AttributeError", "object has no attribute 'get'")
               /\ UNCHANGED <<results, origin, i>>
          ELSE IF "transcript" \notin DOMAIN t \/ "video_id" \notin DOMAIN t
          THEN /\ results' = Append(results, FailureEntry(t, "Missing required fields", "validation_error"))
               /\ origin' = Append(origin, Origin(i, "validation", "none"))
               /\ i' = i + 1
               /\ UNCHANGED <<pc, raised>>
          ELSE /\ i' = i + 1
               /\ UNCHANGED <<pc, raised, results, origin>>
    /\ UNCHANGED <<transcripts, style, sorted_transcripts, k, p_vars, n_vars, c_vars, r_vars, g_vars, o_vars>>

\* the sort, after the validation loop has seen every item
SortTranscripts ==
    /\ pc = "validate" /\ i > Len(transcripts)
    /\ LET s == sorted_by_date(transcripts)
       IN IF s.raised # NoExc
          THEN /\ pc' = "raised" /\ raised' = s.raised
               /\ UNCHANGED sorted_transcripts
          ELSE /\ pc' = "process" /\ sorted_transcripts' = s.value
               /\ UNCHANGED raised
    /\ UNCHANGED <<transcripts, style, results, origin, i, k, p_vars, n_vars, c_vars, r_vars, g_vars, o_vars>>

\* one iteration of the processing loop
ProcessItem ==
    /\ pc = "process" /\ k <= Len(sorted_transcripts)
    /\ LET j == sorted_transcripts[k]
           t == transcripts[j]
       IN IF "transcript" \notin DOMAIN t
          THEN /\ results' = Append(results, FailureEntry(t, "'transcript'", "processing_error"))
               /\ origin' = Append(origin, Origin(j, "processing", "not called"))
          ELSE IF "video_id" \notin DOMAIN t
          THEN /\ results' = Append(results, FailureEntry(t, "'video_id'", "processing_error"))
               /\ origin' = Append(origin, Origin(j, "processing", "not called"))
          ELSE \E script \in Scripts :
                 \E out \in {process_transcript(
                                Args(t.transcript, Get(t, "title", None), t.video_id,
                                     Get(t, "publishedAt", None), style), script)} :
                    IF out.raised # NoExc
                    THEN /\ results' = Append(results, FailureEntry(t, out.raised.msg, "processing_error"))
                         /\ origin' = Append(origin, Origin(j, "processing", "raised"))
                    ELSE /\ results' = Append(results, SuccessEntry(t, out.value, style))
                         /\ origin' = Append(origin, Origin(j, "processing",
                                IF "error" \in DOMAIN out.value THEN "failed" ELSE "succeeded"))
    /\ k' = k + 1
    /\ UNCHANGED <<pc, transcripts, style, i, sorted_transcripts, raised, p_vars, n_vars, c_vars, r_vars, g_vars, o_vars>>

\* return results
ReturnResults ==
    /\ pc = "process" /\ k > Len(sorted_transcripts)
    /\ pc' = "returned"
    /\ UNCHANGED <<transcripts, style, results, origin, i, sorted_transcripts, k, raised, p_vars, n_vars, c_vars, r_vars, g_vars, o_vars>>

Next == ValidateItem \/ SortTranscripts \/ ProcessItem \/ ReturnResults

Spec == InitBatch /\ [][Next]_vars

----------------------------------------------------------------------------
(* Claims about batch_process_transcripts, checked under Spec *)

IsFailureRecord(r) ==
    /\ {"video_id", "error", "success", "error_type"} \subseteq DOMAIN r
    /\ r.success = FALSE
IsProcessedRecord(r) ==
    /\ {"formatted_text", "summary", "tags", "key_points"} \subseteq DOMAIN r
    /\ "error" \notin DOMAIN r

Inputs == 1..Len(transcripts)
Entries == 1..Len(results)
MissingFields(t) == isinstance_dict(t) /\ ("transcript" \notin DOMAIN t \/ "video_id" \notin DOMAIN t)
ValidInput(t) == isinstance_dict(t) /\ ~MissingFields(t)
EntriesOf(j) == {e \in Entries : origin[e].src = j}
InSorted(j) == \E n \in 1..Len(sorted_transcripts) : sorted_transcripts[n] = j

\* C1: the returned sequence has exactly one entry per input: its length is
\* len(transcripts), also when some inputs miss required fields.
C1_OneEntryPerInput ==
    pc = "returned" => Len(results) = Len(transcripts)

\* C2: in the returned sequence an entry has success = True only if
\* process_transcript succeeded for that input; an input whose processing
\* failed appears as a failure record with success = False.
C2_SuccessOnlyIfProcessed ==
    pc = "returned" =>
        \A e \in Entries :
            /\ results[e].success = TRUE => origin[e].processed = "succeeded"
            /\ origin[e].processed \in {"failed", "raised"} => IsFailureRecord(results[e])

\* C3: an input that lacks video_id or transcript yields exactly one entry, a
\* validation_error failure record; it is not sorted and not handed to the
\* processing loop, and the other inputs are still processed.
C3_MissingFieldsOneEntry ==
    pc = "returned" =>
        \A j \in Inputs :
            /\ MissingFields(transcripts[j]) =>
                  /\ Cardinality(EntriesOf(j)) = 1
                  /\ \A e \in EntriesOf(j) :
                        IsFailureRecord(results[e]) /\ results[e].error_type = "validation_error"
                  /\ ~InSorted(j)
            /\ ValidInput(transcripts[j]) =>
                  \E e \in EntriesOf(j) : origin[e].pass = "processing"

\* C4: an element that is not a dict yields a validation_error failure record
\* for that entry and does not abort the batch.
C4_NonDictDoesNotAbort ==
    /\ raised.type # "AttributeError"
    /\ \A j \in Inputs :
          (~isinstance_dict(transcripts[j]) /\ i > j) =>
              \E e \in EntriesOf(j) :
                  IsFailureRecord(results[e]) /\ results[e].error_type = "validation_error"

\* C5: for any mix of timezone-qualified dates, dates without timezone and
\* missing or unparsable dates, the valid inputs are processed in descending
\* publishedAt order, the inputs without a parsable date last.
C5_DescendingDateOrder ==
    (\A j \in Inputs : ValidInput(transcripts[j])) =>
        /\ pc # "raised"
        /\ pc = "returned" =>
              \A e1, e2 \in Entries :
                  e1 < e2 => get_date(transcripts[origin[e1].src]).t
                                >= get_date(transcripts[origin[e2].src]).t

----------------------------------------------------------------------------
(* Claims about process_transcript, checked under SpecProcess *)

NonBlank(text) == strip(text) # <<>>
Done == p_pc = "done"

\* the LLM raises a transient error on attempts 1..n and returns valid output on attempt n+1
TransientThenValid(script, n) ==
    /\ \A j \in 1..n : script[j] = "ServerError"
    /\ script[n + 1] = "Valid"

\* C6: process_transcript never raises: whatever the input and whatever the
\* LLM does, the call returns a processed record or a failure record whose
\* error_type is validation_error or processing_error.
C6_NeverRaises ==
    Done => /\ p_out.raised = NoExc
            /\ \/ IsProcessedRecord(p_out.value)
               \/ /\ IsFailureRecord(p_out.value)
                  /\ p_out.value.error_type \in {"validation_error", "processing_error"}

\* C6 witness: the LLM raised on the first attempt and the call returned a failure record
C6_Witness ==
    /\ Done /\ NonBlank(p_args.transcript_text)
    /\ p_script[1] \in LLMRaises
    /\ p_out.raised = NoExc /\ IsFailureRecord(p_out.value)

\* C7: if the LLM raises a transient error on its first n attempts, n < MAX_RETRIES,
\* and then returns a valid response, the call succeeds after exactly n+1 invocations.
C7_RetryThenSuccess ==
    \A n \in 0..(MAX_RETRIES - 1) :
        (Done /\ NonBlank(p_args.transcript_text) /\ TransientThenValid(p_script, n))
            => /\ p_out.raised = NoExc
               /\ IsProcessedRecord(p_out.value)
               /\ p_out.llm_calls = n + 1

\* C8: if every attempt raises a non-key exception, exactly MAX_RETRIES
\* invocations are made and the call then returns a processing_error failure
\* that carries the last exception.
C8_RetryUntilExhausted ==
    (Done /\ NonBlank(p_args.transcript_text)
          /\ \A j \in 1..MAX_RETRIES : p_script[j] = "ServerError")
        => /\ p_out.llm_calls = MAX_RETRIES
           /\ p_out.raised = NoExc
           /\ IsFailureRecord(p_out.value)
           /\ p_out.value.error_type = "processing_error"
           /\ p_out.value.error = p_script[MAX_RETRIES]

\* C9: a KeyError raised by the LLM invocation is never retried: no invocation
\* follows one that raised KeyError, and a KeyError on the first invocation
\* ends the call with a failure record after exactly one invocation.
C9_KeyErrorNotRetried ==
    Done => /\ \A j \in 1..(p_out.llm_calls - 1) : p_script[j] # "KeyError"
            /\ (NonBlank(p_args.transcript_text) /\ p_script[1] = "KeyError")
                 => /\ p_out.llm_calls = 1
                    /\ p_out.raised = NoExc
                    /\ IsFailureRecord(p_out.value)

\* C9 witness: a call whose first LLM invocation raised KeyError has completed
C9_Witness ==
    /\ Done /\ NonBlank(p_args.transcript_text)
    /\ p_script[1] = "KeyError" /\ p_script[2] = "Valid"
    /\ p_out.llm_calls = 1 /\ IsFailureRecord(p_out.value)

\* C10: a call with an empty or whitespace-only transcript_text returns a
\* failure record with error_type validation_error, without invoking the LLM.
C10_BlankIsValidationError ==
    (Done /\ ~NonBlank(p_args.transcript_text))
        => /\ p_out.raised = NoExc
           /\ IsFailureRecord(p_out.value)
           /\ p_out.value.error_type = "validation_error"
           /\ p_out.llm_calls = 0

\* the LLM call returned text that normalises but that validate_response rejects
FailsValidation(outcome, text) ==
    /\ outcome \in LLMReturns
    /\ LET processed == clean_and_transform_response(LLMText(outcome, text))
       IN /\ processed.raised = NoExc
          /\ validate_response(text, processed.value).raised # NoExc

\* C11: when the normalised output of the last LLM invocation fails
\* validation, the call returns a failure record whose error_type is
\* validation_error.
C11_ValidationFailureKind ==
    (/\ Done /\ NonBlank(p_args.transcript_text)
     /\ p_out.llm_calls >= 1
     /\ FailsValidation(p_script[p_out.llm_calls], p_args.transcript_text))
        => /\ p_out.raised = NoExc
           /\ IsFailureRecord(p_out.value)
           /\ p_out.value.error_type = "validation_error"

\* the record echoes the arguments of the call
EchoesInput(r, a) ==
    /\ Truthy(a.video_id) => ("video_id" \in DOMAIN r /\ r.video_id = a.video_id)
    /\ Truthy(a.video_title) => ("title" \in DOMAIN r /\ r.title = a.video_title)
    /\ Truthy(a.publish_date) => ("publishedAt" \in DOMAIN r /\ r.publishedAt = a.publish_date)
    /\ "style" \in DOMAIN r /\ r.style = a.style

\* C12: when the LLM returns well-formed output with a new non-empty
\* formatted_text and non-empty summary, tags and key_points, the call
\* returns a processed record whose success flag is true and which echoes
\* video_id, title, published_at and the style.
C12_SuccessRecord ==
    (Done /\ NonBlank(p_args.transcript_text) /\ p_script[1] = "Valid")
        => /\ p_out.raised = NoExc
           /\ IsProcessedRecord(p_out.value)
           /\ "success" \in DOMAIN p_out.value /\ p_out.value.success = TRUE
           /\ EchoesInput(p_out.value, p_args)

\* C13: every record returned as a success has, in its final form, a
\* non-empty formatted_text that differs from the input transcript_text, and
\* non-empty summary, tags and key_points.
C13_SuccessSatisfiesInvariant ==
    (Done /\ p_out.raised = NoExc /\ IsProcessedRecord(p_out.value))
        => /\ p_out.value.formatted_text # <<>>
           /\ p_out.value.formatted_text # p_args.transcript_text
           /\ p_out.value.summary # EmptyStr
           /\ p_out.value.tags # <<>>
           /\ p_out.value.key_points # <<>>

----------------------------------------------------------------------------
(* SpecNormalize: clean_and_transform_response on any raw text, then       *)
(* validate_response on what it returned, as lines 353-357 call them.      *)
InitNormalize ==
    /\ n_pc = "ready"
    /\ n_raw \in RawTexts
    /\ n_input \in Texts
    /\ n_out = None /\ n_checked = None
    /\ ProcessUnused /\ BatchUnused /\ CleanUnused /\ RateUnused /\ ProgressUnused /\ LaterUnused

Normalize ==
    /\ n_pc = "ready"
    /\ n_out' = clean_and_transform_response(n_raw)
    /\ n_pc' = "normalized"
    /\ UNCHANGED <<n_raw, n_input, n_checked, p_vars, b_vars, c_vars, r_vars, g_vars, o_vars>>

Validate ==
    /\ n_pc = "normalized" /\ n_out.raised = NoExc
    /\ n_checked' = validate_response(n_input, n_out.value)
    /\ n_pc' = "validated"
    /\ UNCHANGED <<n_raw, n_input, n_out, p_vars, b_vars, c_vars, r_vars, g_vars, o_vars>>

NextNormalize == Normalize \/ Validate

SpecNormalize == InitNormalize /\ [][NextNormalize]_vars

----------------------------------------------------------------------------
(* Claims about validate_response and clean_and_transform_response *)

\* the empty value of a field: '' for the str, [] or '' for the others
EmptyValue(field) == IF field = "summary" THEN EmptyStr ELSE <<>>
\* the field is missing from the result or empty
EmptyOrMissing(r, field) == field \notin DOMAIN r \/ r[field] = EmptyValue(field)

\* C14: validate_response rejects, with a validation error, exactly when
\* formatted_text is empty or missing, or equals the original text, or one
\* of summary, tags, key_points is empty or missing; it accepts every other
\* result.
C14_ValidateRejectsExactly ==
    n_pc = "validated" =>
        /\ n_checked.raised # NoExc
              <=> \/ EmptyOrMissing(n_out.value, "formatted_text")
                  \/ n_out.value.formatted_text = n_input
                  \/ \E field \in {"summary", "tags", "key_points"} :
                        EmptyOrMissing(n_out.value, field)
        /\ n_checked.raised # NoExc => n_checked.raised.type = "ValueError"
        /\ n_checked.raised = NoExc => n_checked.value = TRUE

\* C14 witness: a result with every field present whose formatted_text is
\* the non-empty original text has been rejected
C14_Witness ==
    /\ n_pc = "validated" /\ n_input # <<>>
    /\ \A field \in Keys : ~EmptyOrMissing(n_out.value, field)
    /\ n_out.value.formatted_text = n_input
    /\ n_checked.raised # NoExc

\* the tier was attempted
Attempted(tier) == \E j \in DOMAIN n_out.tiers : n_out.tiers[j] = tier

\* C15: for raw text that is valid JSON the normaliser returns exactly what
\* direct decoding gives; tier 2 is attempted only if tier 1 fails to
\* decode, tier 3 only if tier 2 fails as well.
C15_TiersInOrder ==
    n_pc \in {"normalized", "validated"} =>
        /\ IsValidJSON(n_raw) =>
              /\ n_out.raised = NoExc
              /\ n_out.value = n_raw.fields
              /\ n_out.tiers = <<1>>
        /\ Attempted(1)
        /\ Attempted(2) => ~IsValidJSON(n_raw)
        /\ Attempted(3) => ~IsValidJSON(n_raw) /\ ~IsValidJSON(cleaned_text(n_raw))

\* C15 witness: a JSON object with all four members was decoded directly
C15_Witness ==
    /\ n_pc = "normalized" /\ IsValidJSON(n_raw)
    /\ DOMAIN n_raw.fields = Keys
    /\ n_out.raised = NoExc /\ n_out.value = n_raw.fields /\ n_out.tiers = <<1>>

\* what the patterns of tier 3 capture for the field
Extracted(raw, field) == extract_field(raw, field, field \in {"tags", "key_points"})
NothingExtracted(raw) ==
    \A field \in Keys : Extracted(raw, field) = EmptyValue(field)

\* C16: the normaliser fails, with a parse error, if and only if tier 1 and
\* tier 2 both fail to decode and tier 3 extracts an empty value for every
\* field; when tier 3 recovers at least one field it returns a record of the
\* four fields instead.
C16_FailsIffNothingRecovered ==
    n_pc \in {"normalized", "validated"} =>
        /\ n_out.raised # NoExc
              <=> /\ ~IsValidJSON(n_raw) /\ ~IsValidJSON(cleaned_text(n_raw))
                  /\ NothingExtracted(n_raw)
        /\ n_out.raised # NoExc => n_out.raised.type = "ValueError"
        /\ (Attempted(3) /\ ~NothingExtracted(n_raw)) =>
              /\ n_out.raised = NoExc
              /\ DOMAIN n_out.value = Keys
              /\ n_out.value.summary = Extracted(n_raw, "summary")
              /\ n_out.value.formatted_text = Extracted(n_raw, "formatted_text")

\* C16 witness: text in which no tier finds anything has made the call fail
C16_Witness ==
    /\ n_pc = "normalized" /\ n_raw.shape = "fragment"
    /\ NothingExtracted(n_raw)
    /\ n_out.tiers = <<1, 2, 3>> /\ n_out.raised # NoExc

----------------------------------------------------------------------------
(* SpecClean: clean_metadata_from_text on any text, then on its own output *)
CleanAlphabet ==
    {"a", " ", NL, Timestamp, SoundEffect, Transcriber, Reviewer, TitleKey, H1, H2, H3, H4}
CleanTexts == UNION {[1..n -> CleanAlphabet] : n \in 0..MaxCleanLen}

InitClean ==
    /\ c_pc = "ready"
    /\ c_text \in CleanTexts
    /\ c_once = <<>> /\ c_twice = <<>>
    /\ ProcessUnused /\ BatchUnused /\ NormalizeUnused /\ RateUnused /\ ProgressUnused /\ LaterUnused

CleanOnce ==
    /\ c_pc = "ready"
    /\ c_once' = clean_metadata_from_text(c_text)
    /\ c_pc' = "once"
    /\ UNCHANGED <<c_text, c_twice, p_vars, b_vars, n_vars, r_vars, g_vars, o_vars>>

CleanAgain ==
    /\ c_pc = "once"
    /\ c_twice' = clean_metadata_from_text(c_once)
    /\ c_pc' = "twice"
    /\ UNCHANGED <<c_text, c_once, p_vars, b_vars, n_vars, r_vars, g_vars, o_vars>>

NextClean == CleanOnce \/ CleanAgain

SpecClean == InitClean /\ [][NextClean]_vars

\* C17: clean_metadata_from_text is idempotent: applied to its own output it
\* returns that output unchanged, for every text.
C17_CleaningIdempotent == c_pc = "twice" => c_twice = c_once

----------------------------------------------------------------------------
(* SpecRate: rate_limit_decorator's wrapper around process_transcript,     *)
(* called by one thread (calls one after the other) or by two threads (two *)
(* requests of the threaded Flask server).  Time is a clock of whole       *)
(* seconds that starts at a time.time() value no smaller than min_delay.   *)
ThreadCounts == {1, 2}
Threads == 1..r_n
StartTime == RATE_LIMIT_DELAY
MaxTime == StartTime + MaxElapsed

\* a variant of line 58 that never asks for a delay
sleep_time_none(current_time, last_time) == 0

\* line 58: sleep_time = min_delay - (current_time - last_time)
sleep_time(current_time, last_time) == RATE_LIMIT_DELAY - (current_time - last_time)

InitRate ==
    /\ r_n \in ThreadCounts
    /\ r_now = StartTime
    /\ r_last_call = 0
    /\ r_pc = [th \in Threads |-> "idle"]
    /\ r_wake = [th \in Threads |-> 0]
    /\ r_sleep = [th \in Threads |-> 0]
    /\ r_enter = [th \in Threads |-> 0]
    /\ r_start = [th \in Threads |-> 0]
    /\ r_prev_end = [th \in Threads |-> 0]
    /\ r_calls = [th \in Threads |-> 0]
    /\ r_last_end = 0
    /\ ProcessUnused /\ BatchUnused /\ NormalizeUnused /\ CleanUnused /\ ProgressUnused /\ LaterUnused

\* lines 56-62: read the clock and last_call, compute sleep_time, call
\* time.sleep(sleep_time) if it is positive
EnterWrapper(th) ==
    /\ r_pc[th] = "idle" /\ r_calls[th] < MaxCalls
    /\ \E st \in {sleep_time(r_now, r_last_call)} :
          /\ r_sleep' = [r_sleep EXCEPT ![th] = IF st > 0 THEN st ELSE 0]
          /\ r_wake' = [r_wake EXCEPT ![th] = IF st > 0 THEN r_now + st ELSE r_now]
    /\ r_enter' = [r_enter EXCEPT ![th] = r_now]
    /\ r_prev_end' = [r_prev_end EXCEPT ![th] = r_last_end]
    /\ r_pc' = [r_pc EXCEPT ![th] = "waiting"]
    /\ UNCHANGED <<r_n, r_now, r_last_call, r_start, r_calls, r_last_end>>
    /\ UNCHANGED <<p_vars, b_vars, n_vars, c_vars, g_vars, o_vars>>

\* line 63: time.sleep is over (it lasts at least sleep_time), func is called
StartBody(th) ==
    /\ r_pc[th] = "waiting" /\ r_now >= r_wake[th]
    /\ r_start' = [r_start EXCEPT ![th] = r_now]
    /\ r_prev_end' = [r_prev_end EXCEPT ![th] = r_last_end]
    /\ r_pc' = [r_pc EXCEPT ![th] = "running"]
    /\ UNCHANGED <<r_n, r_now, r_last_call, r_wake, r_sleep, r_enter, r_calls, r_last_end>>
    /\ UNCHANGED <<p_vars, b_vars, n_vars, c_vars, g_vars, o_vars>>

\* lines 63-65: func returns (process_transcript returns for every
\* Exception), last_call is set to the clock, the wrapper returns
Complete(th) ==
    /\ r_pc[th] = "running"
    /\ r_last_call' = r_now
    /\ r_last_end' = r_now
    /\ r_calls' = [r_calls EXCEPT ![th] = @ + 1]
    /\ r_pc' = [r_pc EXCEPT ![th] = "idle"]
    \* the locals of the call are gone
    /\ r_wake' = [r_wake EXCEPT ![th] = 0]
    /\ r_sleep' = [r_sleep EXCEPT ![th] = 0]
    /\ r_enter' = [r_enter EXCEPT ![th] = 0]
    /\ r_start' = [r_start EXCEPT ![th] = 0]
    /\ r_prev_end' = [r_prev_end EXCEPT ![th] = 0]
    /\ UNCHANGED <<r_n, r_now>>
    /\ UNCHANGED <<p_vars, b_vars, n_vars, c_vars, g_vars, o_vars>>

\* a second passes
Tick ==
    /\ r_now < MaxTime
    /\ r_now' = r_now + 1
    /\ UNCHANGED <<r_n, r_last_call, r_pc, r_wake, r_sleep, r_enter, r_start, r_prev_end,
                   r_calls, r_last_end>>
    /\ UNCHANGED <<p_vars, b_vars, n_vars, c_vars, g_vars, o_vars>>

NextRate ==
    \/ \E th \in Threads : EnterWrapper(th)
    \/ \E th \in Threads : StartBody(th)
    \/ \E th \in Threads : Complete(th)
    \/ Tick

SpecRate == InitRate /\ [][NextRate]_vars

\* the body of the thread's call has started, and a call completed before that
StartedAfterACall(th) == r_pc[th] = "running" /\ r_prev_end[th] # 0

\* C18: with calls made one after the other, the body of a call is not
\* started until at least RATE_LIMIT_DELAY seconds after the previous call
\* completed; a call made earlier than that blocks for exactly the remaining
\* time, and a call made later does not block.
C18_SequentialCallsSpaced ==
    r_n = 1 =>
        \A th \in Threads :
            /\ StartedAfterACall(th) => r_start[th] - r_prev_end[th] >= RATE_LIMIT_DELAY
            /\ (r_pc[th] \in {"waiting", "running"} /\ r_prev_end[th] # 0) =>
                  r_sleep[th] = IF r_enter[th] - r_prev_end[th] < RATE_LIMIT_DELAY
                                THEN RATE_LIMIT_DELAY - (r_enter[th] - r_prev_end[th])
                                ELSE 0

\* C18 witness: the second call of the only thread was made 3 seconds after
\* the first completed, blocked for the remaining time and has started
C18_Witness ==
    /\ r_n = 1 /\ r_calls[1] = 1 /\ r_pc[1] = "running"
    /\ r_enter[1] = r_prev_end[1] + 3
    /\ r_sleep[1] = RATE_LIMIT_DELAY - 3
    /\ r_start[1] = r_prev_end[1] + RATE_LIMIT_DELAY

\* C19: also when several threads call at once, no two bodies are ever in
\* flight at the same time, and no body is started less than
\* RATE_LIMIT_DELAY seconds after the previous one completed.
C19_GlobalUnderConcurrency ==
    /\ Cardinality({th \in Threads : r_pc[th] = "running"}) <= 1
    /\ \A th \in Threads :
          StartedAfterACall(th) => r_start[th] - r_prev_end[th] >= RATE_LIMIT_DELAY

----------------------------------------------------------------------------
(* SpecProgress: the progress store.  app.py keeps the dict                *)
(* download_progress; the batch route assigns to it, get_download_progress *)
(* reads it, and transcript_processor.update_progress is the operation     *)
(* that is documented to set it.                                           *)
VideoIds == {"v1", "v2"}
\* three of the codes the docstring of update_progress lists, and the codes the route assigns
ProgressCodes == {25, 100, -1}
RouteCodes == {0, 50, -1, 75, 100}

InitProgress ==
    /\ g_progress = <<>>
    /\ g_set = <<>>
    /\ g_read = [status |-> "none"]
    /\ ProcessUnused /\ BatchUnused /\ NormalizeUnused /\ CleanUnused /\ RateUnused /\ LaterUnused

\* update_progress(video_id, progress_value): the body is a docstring and a
\* comment; the call returns None and assigns nothing
update_progress(video_id, progress_value) ==
    /\ g_set' = (video_id :> progress_value) @@ g_set
    /\ UNCHANGED <<g_progress, g_read>>
    /\ UNCHANGED <<p_vars, b_vars, n_vars, c_vars, r_vars, o_vars>>

\* download_transcript_batch_route: with progress_lock: download_progress[video_id] = code
RouteAssigns(video_id, code) ==
    /\ g_progress' = (video_id :> code) @@ g_progress
    /\ UNCHANGED <<g_set, g_read>>
    /\ UNCHANGED <<p_vars, b_vars, n_vars, c_vars, r_vars, o_vars>>

\* get_download_progress for the ids of the request: an error response for
\* an empty list, else download_progress.get(video_id, 0) for each id.
\* `expected` keeps what update_progress was last given for these ids.
get_download_progress(video_ids) ==
    /\ g_read' = IF video_ids = {}
                 THEN [status |-> "error", code |-> 400]
                 ELSE [status |-> "success",
                       progress |-> [v \in video_ids |-> Get(g_progress, v, 0)],
                       expected |-> [v \in video_ids |-> Get(g_set, v, 0)]]
    /\ UNCHANGED <<g_progress, g_set>>
    /\ UNCHANGED <<p_vars, b_vars, n_vars, c_vars, r_vars, o_vars>>

NextProgress ==
    \/ \E v \in VideoIds, code \in ProgressCodes : update_progress(v, code)
    \/ \E v \in VideoIds, code \in RouteCodes : RouteAssigns(v, code)
    \/ \E ids \in SUBSET VideoIds : get_download_progress(ids)

SpecProgress == InitProgress /\ [][NextProgress]_vars

\* C20: get_progress returns 0 for a video_id that was never set and
\* otherwise the code most recently set for it by update_progress.
C20_GetReturnsLastSet ==
    g_read.status = "success" =>
        \A v \in DOMAIN g_read.progress : g_read.progress[v] = g_read.expected[v]

----------------------------------------------------------------------------
(* More claims about batch_process_transcripts, checked under Spec *)

\* C22: batch_process_transcripts called with a structurally invalid batch
\* input (here the empty list) raises instead of returning a result sequence.
C22_InvalidInputRaises ==
    (transcripts = <<>> /\ pc \notin {"validate", "process"}) => pc = "raised"

----------------------------------------------------------------------------
(* SpecTemplate: prompt_templates.get_template called, any number of times *)
(* up to MaxLookups, on recognized and unrecognized style strings.         *)
MaxLookups == 2

\* the registry: one template per style, each with its own system prompt
TEMPLATES ==
    [name \in TemplateNames |->
        [system_prompt |-> name \o " prompt", response_format |-> [type |-> "json_object"]]]

\* style strings: the four keys, and strings that are no key of the registry
StyleStrings ==
    TemplateNames \cup {"", "Default", "DEFAULT", "default ", "academy", "tech", "busines", "None"}

InitTemplate ==
    /\ t_templates = TEMPLATES
    /\ t_style = None
    /\ t_out = None
    /\ t_log = <<>>
    /\ ProcessUnused /\ BatchUnused /\ NormalizeUnused /\ CleanUnused /\ RateUnused
    /\ ProgressUnused /\ PlaylistUnused /\ UrlUnused /\ RouteUnused

\* return TEMPLATES.get(style, TEMPLATES["default"])
GetTemplate(s) ==
    /\ Len(t_log) < MaxLookups
    /\ t_style' = s
    /\ t_out' = t_templates[get_template(s)]
    /\ t_log' = Append(t_log, s)
    /\ UNCHANGED <<t_templates, p_vars, b_vars, n_vars, c_vars, r_vars, g_vars, f_vars, u_vars, d_vars>>

NextTemplate == \E s \in StyleStrings : GetTemplate(s)

SpecTemplate == InitTemplate /\ [][NextTemplate]_vars

\* C23: get_template never fails for a string: each of the four recognized
\* styles returns its own template, every unrecognized string returns the
\* default template, and the registry is left unchanged by the call.
C23_TemplateLookup ==
    t_log # <<>> =>
        /\ t_out \in {TEMPLATES[name] : name \in TemplateNames}
        /\ \A name \in TemplateNames :
              t_style = name => (t_out.system_prompt = name \o " prompt"
                                 /\ \A other \in TemplateNames \ {name} : t_out # TEMPLATES[other])
        /\ t_style \notin TemplateNames => t_out = TEMPLATES["default"]
        /\ t_templates = TEMPLATES

\* an unrecognized style was looked up after a recognized one that is not the default
C23_Witness ==
    /\ Len(t_log) = 2 /\ t_log[1] = "technical" /\ t_style = "tech"
    /\ t_out = TEMPLATES["default"]

----------------------------------------------------------------------------
(* SpecPlaylist: one call of app.fetch_playlist_videos, for any sequence   *)
(* of pages and errors of the playlist API.  The list videos is kept by    *)
(* its length.                                                             *)
PLAYLIST_FETCH_TIMEOUT == 30
MAX_PLAYLIST_ITEMS == 200
\* RATE_LIMIT_DELAY and MAX_RETRIES of app.py
PLAYLIST_RATE_LIMIT_DELAY == 1
PLAYLIST_MAX_RETRIES == 5
\* maxResults of playlistItems().list
maxResults == 50

\* the number of items of a page, and how many of them lack 'title',
\* 'thumbnails' or 'publishedAt' (skipped by the inner handler)
PageSizes == {0, 1, maxResults - 1, maxResults}
Malformed(size) == {m \in {0, 1} : m <= size}
\* seconds the two API requests of one iteration take
Latencies == {0, 10}
\* HTTP statuses of an HttpError
HttpStatuses == {400, 403, 404, 429, 500, 503}

InitPlaylist ==
    /\ f_pc = "start"
    /\ f_key \in BOOLEAN
    /\ f_videos = 0
    /\ f_items_fetched = 0
    /\ f_next_page_token = None
    /\ f_elapsed = 0
    /\ f_tries = 1
    /\ f_raised = NoExc
    /\ ProcessUnused /\ BatchUnused /\ NormalizeUnused /\ CleanUnused /\ RateUnused
    /\ ProgressUnused /\ TemplateUnused /\ UrlUnused /\ RouteUnused

PlaylistRaise(e) ==
    /\ f_pc' = "raised"
    /\ f_raised' = e
    /\ UNCHANGED <<f_key, f_videos, f_items_fetched, f_next_page_token, f_elapsed, f_tries>>

\* lines 132-141: the key check, then the locals are initialised
StartFetch ==
    /\ f_pc = "start"
    /\ IF ~f_key
       THEN PlaylistRaise(Exc("ValueError", "YouTube API key is not configured"))
       ELSE /\ f_pc' = "loop"
            /\ f_videos' = 0 /\ f_items_fetched' = 0 /\ f_next_page_token' = None
            /\ f_elapsed' = 0
            /\ UNCHANGED <<f_key, f_tries, f_raised>>
    /\ UNCHANGED <<p_vars, b_vars, n_vars, c_vars, r_vars, g_vars, t_vars, u_vars, d_vars>>

\* giveup=lambda e: isinstance(e, HttpError) and e.resp.status not in [429, 500, 503]
playlist_giveup(status) == status \notin {429, 500, 503}

\* an HttpError of the API: 403 and 404 become ValueError (lines 207-211);
\* another one leaves the function, and backoff.on_exception calls the
\* function again unless it gives up or this was try number max_tries
HttpErrorRaised(status) ==
    IF status \in {403, 404}
    THEN PlaylistRaise(Exc("ValueError", "Playlist not found or not accessible"))
    ELSE IF playlist_giveup(status) \/ f_tries = PLAYLIST_MAX_RETRIES
    THEN PlaylistRaise(Exc("HttpError", ToString(status)))
    ELSE /\ f_pc' = "start"
         /\ f_tries' = f_tries + 1
         /\ UNCHANGED <<f_key, f_videos, f_items_fetched, f_next_page_token, f_elapsed, f_raised>>

\* lines 185-205: the items of the page are appended, the malformed ones
\* skipped; then the loop ends or goes on
AppendPage(size, malformed, token, latency) ==
    /\ f_videos' = f_videos + (size - malformed)
    /\ f_items_fetched' = f_items_fetched + (size - malformed)
    /\ f_next_page_token' = token
    /\ f_elapsed' = IF f_elapsed + PLAYLIST_RATE_LIMIT_DELAY + latency > PLAYLIST_FETCH_TIMEOUT
                    THEN PLAYLIST_FETCH_TIMEOUT + 1
                    ELSE f_elapsed + PLAYLIST_RATE_LIMIT_DELAY + latency
    /\ f_pc' = IF token = None \/ f_items_fetched' >= MAX_PLAYLIST_ITEMS THEN "after" ELSE "loop"
    /\ UNCHANGED <<f_key, f_tries, f_raised>>

\* one iteration of `while True` (lines 144-211)
FetchPage ==
    /\ f_pc = "loop"
    /\ IF f_elapsed > PLAYLIST_FETCH_TIMEOUT
       THEN PlaylistRaise(Exc("TimeoutError", "Playlist fetch operation timed out"))
       ELSE IF f_items_fetched >= MAX_PLAYLIST_ITEMS
       THEN /\ f_pc' = "after"
            /\ UNCHANGED <<f_key, f_videos, f_items_fetched, f_next_page_token, f_elapsed, f_tries, f_raised>>
       ELSE \/ \E status \in HttpStatuses : HttpErrorRaised(status)
            \/ PlaylistRaise(Exc("ValueError", "Invalid playlist data received from YouTube"))
            \* an item without snippet.resourceId.videoId: line 169 raises KeyError
            \/ PlaylistRaise(Exc("KeyError", "'videoId'"))
            \/ \E size \in PageSizes, token \in {None, "token"}, latency \in Latencies :
                 \E malformed \in Malformed(size) : AppendPage(size, malformed, token, latency)
    /\ UNCHANGED <<p_vars, b_vars, n_vars, c_vars, r_vars, g_vars, t_vars, u_vars, d_vars>>

\* lines 213-218
ReturnVideos ==
    /\ f_pc = "after"
    /\ IF f_videos = 0
       THEN PlaylistRaise(Exc("ValueError", "No valid videos found in playlist"))
       ELSE /\ f_pc' = "returned"
            /\ UNCHANGED <<f_key, f_videos, f_items_fetched, f_next_page_token, f_elapsed, f_tries, f_raised>>
    /\ UNCHANGED <<p_vars, b_vars, n_vars, c_vars, r_vars, g_vars, t_vars, u_vars, d_vars>>

NextPlaylist == StartFetch \/ FetchPage \/ ReturnVideos

SpecPlaylist == InitPlaylist /\ [][NextPlaylist]_vars

\* C24: fetch_playlist_videos never returns more than MAX_PLAYLIST_ITEMS
\* videos, whatever pages the playlist API returns.
C24_AtMostMaxItems ==
    f_pc = "returned" => f_videos <= MAX_PLAYLIST_ITEMS

----------------------------------------------------------------------------
(* SpecUrl: app.validate_youtube_url on one URL.  A URL is written as its  *)
(* parts (scheme, host prefix, host, path, id, query suffix); the string   *)
(* the function receives is their concatenation, a sequence of tokens.  A  *)
(* token is a run of characters that the six patterns treat as a unit; a   *)
(* word of a path counts as so many characters of [\w-].                   *)
IdChar == "c"                 \* a character of [\w-]
VIDEO_ID_LENGTH == 11         \* the {11} of the patterns
IdLengths == {0, VIDEO_ID_LENGTH - 1, VIDEO_ID_LENGTH, VIDEO_ID_LENGTH + 1}

SchemeTokens == {"https://", "http://", "//"}
PrefixTokens == {"www.", "m."}
YouTubeHosts == {"youtube.com", "youtube-nocookie.com", "youtu.be"}
HostTokens == YouTubeHosts \cup {"notyoutube.com"}
VideoPaths ==
    {<<"/", "watch", "?v=">>, <<"/", "shorts", "/">>, <<"/", "live", "/">>,
     <<"/", "embed", "/">>, <<"/">>}
Paths == VideoPaths \cup {<<>>, <<"/", "watch", "?id=">>, <<"/", "watch">>, <<"/", "playlist", "?list=">>}
Suffixes == {<<>>, <<"?t=1">>, <<"&t=1s">>, <<"&list=PL">>, <<"?feature=share">>}

IdRun(n) == [j \in 1..n |-> IdChar]
OneOf(S) == {<<>>} \cup {<<x>> : x \in S}

NotAUrl == [scheme |-> <<>>, prefix |-> <<>>, host |-> "randomtext", path |-> <<>>,
            id |-> <<>>, suffix |-> <<>>]
Urls ==
    {NotAUrl} \cup
    [scheme : OneOf(SchemeTokens), prefix : OneOf(PrefixTokens), host : HostTokens,
     path : Paths, id : {IdRun(n) : n \in IdLengths}, suffix : Suffixes]

\* the string of a URL
UrlString(u) == u.scheme \o u.prefix \o <<u.host>> \o u.path \o u.id \o u.suffix

\* the number of characters of [\w-] a token stands for
WordChars(tok) ==
    IF tok = IdChar THEN 1
    ELSE IF tok \in {"watch", "embed"} THEN 5
    ELSE IF tok = "shorts" THEN 6
    ELSE IF tok = "live" THEN 4
    ELSE IF tok = "playlist" THEN 8
    ELSE 0

\* the length of the run of [\w-] characters a string starts with
RECURSIVE WordRun(_)
WordRun(url) ==
    IF url = <<>> \/ WordChars(Head(url)) = 0 THEN 0
    ELSE WordChars(Head(url)) + WordRun(Tail(url))

\* the elements of a pattern: an optional group, a literal, [\w-]{n}, [\w-]+
Optional(S) == [kind |-> "optional", of |-> S]
Literal(S) == [kind |-> "literal", of |-> S]
AtLeast(n) == [kind |-> "run", n |-> n]

Scheme == Optional(SchemeTokens)        \* ((?:https?:)?\/\/)?
Prefix == Optional(PrefixTokens)        \* ((?:www|m)\.)?
Slash == Literal({"/"})

\* the six patterns.  Each ends with [\w-]{11} or [\w-]+ and nothing after
\* it, so its last element matches when the run of [\w-] characters at that
\* place has at least 11 characters, or at least one.
patterns ==
    << <<Scheme, Prefix, Literal({"youtube.com"}), Slash, Literal({"watch"}), Literal({"?v="}),
         AtLeast(VIDEO_ID_LENGTH)>>,
       <<Scheme, Prefix, Literal({"youtube.com"}), Slash, Literal({"shorts"}), Slash,
         AtLeast(VIDEO_ID_LENGTH)>>,
       <<Scheme, Prefix, Literal({"youtube.com"}), Slash, Literal({"live"}), Slash,
         AtLeast(VIDEO_ID_LENGTH)>>,
       <<Scheme, Prefix, Literal({"youtube.com", "youtube-nocookie.com"}), Slash, Literal({"embed"}),
         Slash, AtLeast(VIDEO_ID_LENGTH)>>,
       <<Scheme, Literal({"youtu.be"}), Slash, AtLeast(VIDEO_ID_LENGTH)>>,
       <<Scheme, Prefix, Literal({"youtube.com"}), Slash, Literal({"playlist"}), Literal({"?list="}),
         AtLeast(1)>> >>

\* re.match(pattern, url): the pattern matches a prefix of url
RECURSIVE re_match(_, _)
re_match(pattern, url) ==
    IF pattern = <<>> THEN TRUE
    ELSE LET e == Head(pattern)
         IN CASE e.kind = "optional" ->
                   \/ url # <<>> /\ Head(url) \in e.of /\ re_match(Tail(pattern), Tail(url))
                   \/ re_match(Tail(pattern), url)
              [] e.kind = "literal" ->
                   url # <<>> /\ Head(url) \in e.of /\ re_match(Tail(pattern), Tail(url))
              [] e.kind = "run" -> WordRun(url) >= e.n

\* url.split('&')[0]
RECURSIVE split_amp(_)
split_amp(url) ==
    IF url = <<>> \/ Head(url) \in {"&t=1s", "&list=PL"} THEN <<>>
    ELSE <<Head(url)>> \o split_amp(Tail(url))

validate_youtube_url(url) ==
    \E j \in 1..Len(patterns) : re_match(patterns[j], split_amp(url))

InitUrl ==
    /\ u_pc = "ready"
    /\ u_url \in Urls
    /\ u_out = FALSE
    /\ ProcessUnused /\ BatchUnused /\ NormalizeUnused /\ CleanUnused /\ RateUnused
    /\ ProgressUnused /\ TemplateUnused /\ PlaylistUnused /\ RouteUnused

ValidateUrl ==
    /\ u_pc = "ready"
    /\ u_out' = validate_youtube_url(UrlString(u_url))
    /\ u_pc' = "done"
    /\ UNCHANGED <<u_url, p_vars, b_vars, n_vars, c_vars, r_vars, g_vars, t_vars, f_vars, d_vars>>

NextUrl == ValidateUrl

SpecUrl == InitUrl /\ [][NextUrl]_vars

\* a URL of the watch, youtu.be, embed, live or shorts form
VideoForm(u) ==
    /\ u.scheme \in {<<"https://">>, <<"http://">>}
    /\ \/ u.host = "youtube.com"
          /\ u.path \in {<<"/", "watch", "?v=">>, <<"/", "shorts", "/">>, <<"/", "live", "/">>,
                         <<"/", "embed", "/">>}
       \/ u.host = "youtube-nocookie.com" /\ u.path = <<"/", "embed", "/">>
       \/ u.host = "youtu.be" /\ u.path = <<"/">> /\ u.prefix = <<>>

----------------------------------------------------------------------------
(* More claims about validate_response, checked under SpecNormalize *)

\* the lines of a text
RECURSIVE Lines(_)
Lines(s) ==
    IF FirstAt(s, NL, 1) = 0 THEN <<s>>
    ELSE <<SubSeq(s, 1, FirstAt(s, NL, 1) - 1)>> \o Lines(Drop(s, FirstAt(s, NL, 1)))

\* a metadata header line or a credit line
IsMetadataLine(line) == line # <<>> /\ Head(line) \in {TitleKey, Transcriber, Reviewer}
\* what a line says: its tokens without blanks, timestamps and stage directions
ContentOf(line) == SelectSeq(line, LAMBDA tok : tok \notin Whitespace \cup {Timestamp, SoundEffect})

RECURSIVE ContentLines(_)
ContentLines(ls) ==
    IF ls = <<>> THEN <<>>
    ELSE (IF IsMetadataLine(Head(ls)) \/ ContentOf(Head(ls)) = <<>> THEN <<>>
          ELSE <<ContentOf(Head(ls))>>) \o ContentLines(Tail(ls))

\* the elements of a occur in b, in the order of a
RECURSIVE IsSubsequence(_, _)
IsSubsequence(a, b) ==
    IF a = <<>> THEN TRUE
    ELSE IF b = <<>> THEN FALSE
    ELSE IF Head(a) = Head(b) THEN IsSubsequence(Tail(a), Tail(b))
    ELSE IsSubsequence(a, Tail(b))

\* C26: metadata stripping removes from formatted_text only metadata header
\* lines, credit lines, stage directions and leading timestamps: every other
\* line of the body is still present, in its original order, in the cleaned
\* formatted_text, whichever tier produced the record.
C26_BodyLinesKept ==
    (n_pc = "validated" /\ n_checked.raised = NoExc) =>
        IsSubsequence(ContentLines(Lines(n_out.value.formatted_text)),
                      ContentLines(Lines(n_checked.response.formatted_text)))

----------------------------------------------------------------------------
(* More claims about process_transcript, checked under SpecProcess *)

\* C27: the user text process_transcript sends to the LLM is the context
\* preamble (title, published date and video id, each when provided)
\* followed by the transcript body; without metadata it is the body alone.
C27_UserTextHasPreamble ==
    (p_pc = "done" /\ p_out.llm_calls > 0) =>
        p_sent = context(p_args) \o p_args.transcript_text

----------------------------------------------------------------------------
(* SpecRoute: one request to /download_transcript_batch, handled by        *)
(* download_transcript_batch_route, and requests to /download_progress     *)
(* handled on another thread of the server at the same time.  The route    *)
(* calls batch_process_transcripts, whose steps are the actions of Spec.   *)
MaxIds == 2       \* longest list video_ids of a request

NotJson == <<"not json">>
IdLists == UNION {[1..n -> VideoIds] : n \in 0..MaxIds}
Requests == {NotJson} \cup IdLists

\* the codes the handler assigns at its checkpoints (lines 345, 378, 383-398, 409, 464)
checkpoint_swapped(stage) ==
    CASE stage = "started" -> 0
      [] stage = "downloaded" -> 50
      [] stage = "failed" -> -1
      [] stage = "processed" -> 100
      [] stage = "complete" -> 75

checkpoint(stage) ==
    CASE stage = "started" -> 0
      [] stage = "downloaded" -> 50
      [] stage = "failed" -> -1
      [] stage = "processed" -> 75
      [] stage = "complete" -> 100

\* Lock.acquire without waiting for the holder
acquire_unguarded(thread) == d_lock' = thread

\* `with progress_lock:` entered by a thread: it waits until the lock is free
acquire(thread) == d_lock = "free" /\ d_lock' = thread

\* what the steps of the route leave alone
RouteFrame == UNCHANGED <<p_vars, n_vars, c_vars, r_vars, t_vars, f_vars, u_vars, g_set, g_read, q_pc>>
PollFrame == UNCHANGED <<p_vars, b_vars, n_vars, c_vars, r_vars, t_vars, f_vars, u_vars, g_set>>

InitRoute ==
    /\ d_pc = "start"
    /\ d_request \in Requests
    /\ d_j = 1
    /\ d_transcripts = <<>>
    /\ d_publish_date = None
    /\ d_write = [video_id |-> None, code |-> 0]
    /\ d_after = "start"
    /\ d_r = 1
    /\ d_output = 0
    /\ d_response = 0
    /\ d_hist = [v \in VideoIds |-> <<>>]
    /\ d_lock = "free"
    /\ q_pc = "idle"
    /\ ProcessUnused /\ BatchUnused /\ NormalizeUnused /\ CleanUnused /\ RateUnused
    /\ ProgressUnused /\ TemplateUnused /\ PlaylistUnused /\ UrlUnused

\* the handler is about to run `with progress_lock: download_progress[video_id] = code`
\* and to go on at `after`
Assign(video_id, code, after) ==
    /\ d_write' = [video_id |-> video_id, code |-> code]
    /\ d_after' = after
    /\ d_pc' = "lock"

\* return create_error_response(...) / return response
Respond(status) ==
    /\ d_response' = status
    /\ d_pc' = "done"

\* lines 328-341
RouteStart ==
    /\ d_pc = "start"
    /\ IF d_request = NotJson THEN Respond(415)
       ELSE IF d_request = <<>> THEN Respond(400)
       ELSE d_pc' = "loop" /\ UNCHANGED d_response
    /\ UNCHANGED <<d_request, d_j, d_transcripts, d_publish_date, d_write, d_after, d_r,
                   d_output, d_hist, d_lock, b_vars, g_progress>>
    /\ RouteFrame

\* line 342-345: the next video_id, if any, starts at code 0
NextVideo ==
    /\ d_pc = "loop" /\ d_j <= Len(d_request)
    /\ Assign(d_request[d_j], checkpoint("started"), "details")
    /\ UNCHANGED <<d_request, d_j, d_transcripts, d_publish_date, d_r, d_output, d_response,
                   d_hist, d_lock, b_vars, g_progress>>
    /\ RouteFrame

\* the with block: acquire, assign, release
RouteLock ==
    /\ d_pc = "lock"
    /\ acquire("route")
    /\ d_pc' = "assign"
    /\ UNCHANGED <<d_request, d_j, d_transcripts, d_publish_date, d_write, d_after, d_r,
                   d_output, d_response, d_hist, b_vars, g_progress>>
    /\ RouteFrame

RouteAssign ==
    /\ d_pc = "assign"
    /\ g_progress' = (d_write.video_id :> d_write.code) @@ g_progress
    /\ d_hist' = [d_hist EXCEPT ![d_write.video_id] = Append(@, d_write.code)]
    /\ d_pc' = "unlock"
    /\ UNCHANGED <<d_request, d_j, d_transcripts, d_publish_date, d_write, d_after, d_r,
                   d_output, d_response, d_lock, b_vars>>
    /\ RouteFrame

RouteUnlock ==
    /\ d_pc = "unlock"
    /\ d_lock' = "free"
    /\ d_pc' = d_after
    /\ UNCHANGED <<d_request, d_j, d_transcripts, d_publish_date, d_write, d_after, d_r,
                   d_output, d_response, d_hist, b_vars, g_progress>>
    /\ RouteFrame

\* lines 347-360: the video details are fetched; no item, a missing title or
\* an HttpError sends the handler to an except block (lines 390-399)
FetchDetails ==
    /\ d_pc = "details"
    /\ \/ \E date \in {None, AwareDate(1)} :
             /\ d_publish_date' = date
             /\ d_pc' = "transcript"
             /\ UNCHANGED <<d_j, d_write, d_after>>
       \/ /\ Assign(d_request[d_j], checkpoint("failed"), "loop")
          /\ d_j' = d_j + 1
          /\ UNCHANGED d_publish_date
    /\ UNCHANGED <<d_request, d_transcripts, d_r, d_output, d_response, d_hist, d_lock,
                   b_vars, g_progress>>
    /\ RouteFrame

\* lines 362-378: the transcript is fetched and appended; TranscriptsDisabled
\* and NoTranscriptFound send the handler to an except block (lines 380-389)
FetchTranscript ==
    /\ d_pc = "transcript"
    /\ \/ \E text \in {<<>>, <<"a">>} :
             /\ d_transcripts' = Append(d_transcripts,
                    [video_id |-> d_request[d_j], title |-> "T", channel_name |-> "C",
                     publishedAt |-> d_publish_date, transcript |-> text])
             /\ Assign(d_request[d_j], checkpoint("downloaded"), "loop")
       \/ /\ Assign(d_request[d_j], checkpoint("failed"), "loop")
          /\ UNCHANGED d_transcripts
    /\ d_j' = d_j + 1
    /\ UNCHANGED <<d_request, d_publish_date, d_r, d_output, d_response, d_hist, d_lock,
                   b_vars, g_progress>>
    /\ RouteFrame

\* lines 401-403, after the loop over video_ids: batch_process_transcripts is
\* called on the transcripts fetched, if any (line 482 otherwise)
CallBatch ==
    /\ d_pc = "loop" /\ d_j > Len(d_request)
    /\ IF d_transcripts = <<>>
       THEN Respond(500) /\ UNCHANGED b_vars
       ELSE /\ d_pc' = "batch"
            /\ pc' = "validate" /\ transcripts' = d_transcripts /\ style' = "default"
            /\ results' = <<>> /\ i' = 1 /\ sorted_transcripts' = <<>> /\ k' = 1
            /\ raised' = NoExc /\ origin' = <<>>
            /\ UNCHANGED d_response
    /\ UNCHANGED <<d_request, d_j, d_transcripts, d_publish_date, d_write, d_after, d_r,
                   d_output, d_hist, d_lock, g_progress>>
    /\ RouteFrame

\* batch_process_transcripts raised: the handler at lines 484-486 answers 500
BatchRaised ==
    /\ d_pc = "batch" /\ pc = "raised"
    /\ Respond(500)
    /\ UNCHANGED <<d_request, d_j, d_transcripts, d_publish_date, d_write, d_after, d_r,
                   d_output, d_hist, d_lock, b_vars, g_progress>>
    /\ RouteFrame

\* processed_results = batch_process_transcripts(...) returned
BatchReturned ==
    /\ d_pc = "batch" /\ pc = "returned"
    /\ d_pc' = "mark" /\ d_r' = 1
    /\ UNCHANGED <<d_request, d_j, d_transcripts, d_publish_date, d_write, d_after,
                   d_output, d_response, d_hist, d_lock, b_vars, g_progress>>
    /\ RouteFrame

\* lines 405-409: one iteration of the first loop over processed_results
MarkProcessed ==
    /\ d_pc = "mark"
    /\ IF d_r > Len(results)
       THEN d_pc' = "output" /\ d_r' = 1 /\ UNCHANGED <<d_write, d_after>>
       ELSE /\ d_r' = d_r + 1
            /\ IF Truthy(Get(results[d_r], "video_id", None)) /\ Get(results[d_r], "success", FALSE)
               THEN Assign(results[d_r].video_id, checkpoint("processed"), "mark")
               ELSE UNCHANGED <<d_pc, d_write, d_after>>
    /\ UNCHANGED <<d_request, d_j, d_transcripts, d_publish_date, d_output, d_response,
                   d_hist, d_lock, b_vars, g_progress>>
    /\ RouteFrame

\* lines 411-480: one iteration of the second loop over processed_results,
\* and the response after it
WriteOutput ==
    /\ d_pc = "output"
    /\ IF d_r > Len(results)
       THEN /\ IF d_output = 0 THEN Respond(500) ELSE Respond(200)
            /\ UNCHANGED <<d_r, d_output, d_write, d_after>>
       ELSE /\ d_r' = d_r + 1
            /\ d_output' = d_output + 1
            /\ UNCHANGED d_response
            /\ IF Get(results[d_r], "success", FALSE)
               THEN Assign(results[d_r].video_id, checkpoint("complete"), "output")
               ELSE UNCHANGED <<d_pc, d_write, d_after>>
    /\ UNCHANGED <<d_request, d_j, d_transcripts, d_publish_date, d_hist, d_lock, b_vars,
                   g_progress>>
    /\ RouteFrame

\* get_download_progress, lines 503-509: a request without video ids is
\* answered 400, one with the ids goes on to the with block
PollStart ==
    /\ q_pc = "idle"
    /\ \/ q_pc' = "lock" /\ UNCHANGED g_read
       \/ g_read' = [status |-> "error", code |-> 400] /\ UNCHANGED q_pc
    /\ UNCHANGED <<d_pc, d_request, d_j, d_transcripts, d_publish_date, d_write, d_after, d_r,
                   d_output, d_response, d_hist, d_lock, g_progress>>
    /\ PollFrame

\* line 511
PollLock ==
    /\ q_pc = "lock"
    /\ acquire("poll")
    /\ q_pc' = "read"
    /\ UNCHANGED <<d_pc, d_request, d_j, d_transcripts, d_publish_date, d_write, d_after, d_r,
                   d_output, d_response, d_hist, g_progress, g_read>>
    /\ PollFrame

\* line 512
PollRead ==
    /\ q_pc = "read"
    /\ g_read' = [status |-> "success",
                  progress |-> [v \in VideoIds |-> Get(g_progress, v, 0)]]
    /\ q_pc' = "unlock"
    /\ UNCHANGED <<d_pc, d_request, d_j, d_transcripts, d_publish_date, d_write, d_after, d_r,
                   d_output, d_response, d_hist, d_lock, g_progress>>
    /\ PollFrame

\* the end of the with block; the response is sent (lines 514-519) and the
\* request is over: the handler holds no response until the next request
PollUnlock ==
    /\ q_pc = "unlock"
    /\ d_lock' = "free"
    /\ q_pc' = "idle"
    /\ g_read' = [status |-> "none"]
    /\ UNCHANGED <<d_pc, d_request, d_j, d_transcripts, d_publish_date, d_write, d_after, d_r,
                   d_output, d_response, d_hist, g_progress>>
    /\ PollFrame

NextRoute ==
    \/ RouteStart \/ NextVideo \/ RouteLock \/ RouteAssign \/ RouteUnlock
    \/ FetchDetails \/ FetchTranscript \/ CallBatch
    \/ ValidateItem \/ SortTranscripts \/ ProcessItem \/ ReturnResults
    \/ BatchRaised \/ BatchReturned \/ MarkProcessed \/ WriteOutput
    \/ PollStart \/ PollLock \/ PollRead \/ PollUnlock

SpecRoute == InitRoute /\ [][NextRoute]_vars

----------------------------------------------------------------------------
(* Claims about the route and the progress map, checked under SpecRoute *)

\* the steps between acquiring and releasing progress_lock
RouteInWith == d_pc \in {"assign", "unlock"}
PollInWith == q_pc \in {"read", "unlock"}

\* C21: every read and every write of the progress map is performed while
\* holding progress_lock, and the lock is held only for the duration of one
\* dictionary access: never while the route fetches details or a transcript,
\* runs batch_process_transcripts (the LLM calls and the sleeps), or builds
\* its output; in every interleaving of the route and a polling request.
C21_LockOnlyAroundAccess ==
    /\ [](/\ d_lock = "route" <=> RouteInWith
          /\ d_lock = "poll" <=> PollInWith)
    /\ [][/\ g_progress' # g_progress => (d_lock = "route" /\ d_lock' = "route")
          /\ (g_read' # g_read /\ g_read'.status = "success") => (d_lock = "poll" /\ d_lock' = "poll")
         ]_vars

\* the route waits for the lock while a polling request reads the map
C21_Witness ==
    /\ d_pc = "lock" /\ d_write.code = 75
    /\ q_pc = "read" /\ d_lock = "poll"

\* the codes of the progress map, and their order: a code that is not
\* terminal is followed by itself, by a later checkpoint or by -1; a terminal
\* code (100, -1) is followed by no other code
ValidCodes == {0, 50, 75, 100, -1}
Terminal(code) == code \in {100, -1}
Follows(a, b) == a = b \/ (~Terminal(a) /\ (b = -1 \/ b > a))
InCheckpointOrder(h) ==
    /\ \A n \in 1..Len(h) : h[n] \in ValidCodes
    /\ h # <<>> => h[1] = 0
    /\ \A n \in 1..(Len(h) - 1) : Follows(h[n], h[n + 1])
DistinctIds(request) ==
    request # NotJson /\ \A a, b \in 1..Len(request) : a # b => request[a] # request[b]

\* C28: for every batch download request (any list of video ids), the codes
\* written for one video id are from {0, 50, 75, 100, -1} and in checkpoint
\* order: created at 0, then only forward through 50, 75, 100 or to -1, and
\* a terminal code (100 or -1) is not overwritten by another code.
C28_CheckpointOrder ==
    \A v \in VideoIds : InCheckpointOrder(d_hist[v])

\* C28, amended: the same, for every request whose list names each video id
\* at most once.
C28_CheckpointOrderDistinctIds ==
    DistinctIds(d_request) => \A v \in VideoIds : InCheckpointOrder(d_hist[v])

\* a finished request for two videos: one went through every checkpoint, the
\* other failed
C28_Witness ==
    /\ d_pc = "done" /\ d_request = <<"v1", "v2">>
    /\ d_hist["v1"] = <<0, 50, 75, 100>>
    /\ d_hist["v2"] = <<0, -1>>

\* the entries of processed_results for a video id, and what happened to it
ResultsFor(v) == {e \in 1..Len(results) : Get(results[e], "video_id", None) = v}
Requested(v) == d_request # NotJson /\ \E n \in 1..Len(d_request) : d_request[n] = v
Fetched(v) == \E n \in 1..Len(d_transcripts) : d_transcripts[n].video_id = v
ProcessingSucceeded(v) == \E e \in ResultsFor(v) : origin[e].processed = "succeeded"
ProcessingFailed(v) == \E e \in ResultsFor(v) : origin[e].processed \in {"failed", "raised"}

\* C29: when a batch download request finishes, a video's code is 75 or 100
\* only if its transcript was fetched and its model processing succeeded; a
\* video whose transcript fetch or model processing failed ends with -1.
\* (Stated for requests that name each video id once.)
C29_CodeReflectsOutcome ==
    (d_pc = "done" /\ DistinctIds(d_request)) =>
        \A v \in VideoIds :
           /\ Get(g_progress, v, 0) \in {75, 100} => (Fetched(v) /\ ProcessingSucceeded(v))
           /\ (Requested(v) /\ (~Fetched(v) \/ ProcessingFailed(v))) => Get(g_progress, v, 0) = -1

\* C30: every video id whose progress entry was created at 0 by a batch
\* download request has a terminal code (100 or -1) when the request
\* completes, on every execution path of the request.  (Stated for requests
\* that name each video id once.)
C30_TerminalWhenDone ==
    (d_pc = "done" /\ DistinctIds(d_request)) =>
        \A v \in VideoIds : d_hist[v] # <<>> => Terminal(Get(g_progress, v, 0))

====
